---- MODULE Spec2Model ----
(***************************************************************************)
(* A model of go-pgdump's dump engine (src/dumper.go): the Chunker         *)
(* (chunkSlice), the schema dump (Dumper.DumpDatabase with its per-table   *)
(* goroutines, WaitGroup and Mutex), the table script pipeline             *)
(* (scriptTable) and the CSV export (Dumper.DumpDBToCSV with its           *)
(* errgroup).                                                              *)
(*                                                                         *)
(* Three specifications share the variables:                               *)
(*   SpecChunk  chunkSlice applied to bounded inputs                       *)
(*   Spec       DumpDatabase                                               *)
(*   SpecCSV    DumpDBToCSV                                                *)
(***************************************************************************)
EXTENDS Integers, Sequences, FiniteSets

\* ------------------------------------------------------------------ bounds

\* The longest table list the table lister returns.
MaxTables == 2
\* The largest thread count handed to NewDumper (the smallest is -1).
MaxThreads == 2
\* The longest slice chunkSlice is applied to in SpecChunk.
MaxLen == 3
\* The largest chunkSize chunkSlice is applied to in SpecChunk.
MaxK == 3

\* NewDumper's default for a non-positive thread count.
DefaultThreads == 50

\* ------------------------------------------------------------- chunkSlice

\* The for loop of chunkSlice: i is the loop variable (0-based, as in the
\* code), chunks the batches appended so far; slice[i:end] is
\* SubSeq(slice, i + 1, end).
RECURSIVE chunkLoop(_, _, _, _)
chunkLoop(slice, chunkSize, i, chunks) ==
  IF i < Len(slice)
  THEN LET end == IF i + chunkSize > Len(slice) THEN Len(slice) ELSE i + chunkSize
       IN chunkLoop(slice, chunkSize, i + chunkSize,
                    Append(chunks, SubSeq(slice, i + 1, end)))
  ELSE chunks

\* A chunkSlice whose loop stops before a final short batch
\* (i + chunkSize <= len(slice) as the loop condition).
RECURSIVE chunkLoopDropTail(_, _, _, _)
chunkLoopDropTail(slice, chunkSize, i, chunks) ==
  IF i + chunkSize <= Len(slice)
  THEN chunkLoopDropTail(slice, chunkSize, i + chunkSize,
                         Append(chunks, SubSeq(slice, i + 1, i + chunkSize)))
  ELSE chunks

chunkSliceDropTail(slice, chunkSize) ==
  chunkLoopDropTail(slice, IF chunkSize <= 0 THEN 1 ELSE chunkSize, 0, <<>>)

\* A chunkSlice that normalises a non-positive chunkSize to the whole slice
\* (one batch) instead of to 1.
chunkSliceOneBatch(slice, chunkSize) ==
  chunkLoop(slice,
            IF chunkSize <= 0
            THEN (IF Len(slice) = 0 THEN 1 ELSE Len(slice))
            ELSE chunkSize,
            0, <<>>)

\* chunkSlice(slice, chunkSize): a non-positive chunkSize becomes 1.
chunkSlice(slice, chunkSize) ==
  chunkLoop(slice, IF chunkSize <= 0 THEN 1 ELSE chunkSize, 0, <<>>)

\* NewDumper(connectionString, threads).Parallels
NewDumper(threads) == IF threads <= 0 THEN DefaultThreads ELSE threads

\* ------------------------------------------------------------------ state

VARIABLES
  pc,        \* where the coordinator (DumpDatabase / DumpDBToCSV) stands
  ret,       \* what the coordinator returned (Running until it returns)
  Parallels, \* d.Parallels
  tables,    \* the table list (getTables' result; chunkSlice's slice)
  chunks,    \* chunkSlice(tables, d.Parallels)
  ci,        \* index of the current chunk in chunks (range loop, 1-based)
  si,        \* index in the current chunk of the next table to start
  wpc,       \* per table: where its worker goroutine stands
  str,       \* per table: the worker's str (scriptTable's script)
  werr,      \* per table: the worker's err
  wpos,      \* per table: how many fragments of str WriteString has written
  wg,        \* sync.WaitGroup counter
  mx,        \* sync.Mutex: NoOne, or the table whose worker holds it
  out,       \* the content of the output / metadata file
  gerr,      \* errgroup: g.err, the first error (errOnce)
  gctx,      \* errgroup: whether the context of WithContext is cancelled
  gsem,      \* errgroup: tokens in g.sem (active goroutines)
  glimit,    \* errgroup: the limit of SetLimit
  files,     \* per table: the state of <outputDIR>/<table>.csv
  faults,    \* history: every failure that has happened, as <<op, table>>
  tableName, \* scriptTable: its tableName argument
  catalog,   \* scriptTable: the kinds of the table's pg_constraint rows
  spc,       \* scriptTable: the stage it stands before ("returned" at the end)
  sbuffer,   \* scriptTable: its local buffer
  scalls,    \* scriptTable: the stages invoked so far, in order
  sstr,      \* scriptTable: the returned script
  serr,      \* scriptTable: the returned error
  last       \* the latest catalog operation: its failure, text and error

scriptVars == <<tableName, catalog, spc, sbuffer, scalls, sstr, serr, last>>

vars == <<pc, ret, Parallels, tables, chunks, ci, si, wpc, str, werr, wpos,
          wg, mx, out, gerr, gctx, gsem, glimit, files, faults, scriptVars>>

\* Tables are numbered; 0 stands for "no table".
TableIds == 1..MaxTables
NoOne == 0

\* Error values: <<operation, table>>.
Err(op, t) == <<op, t>>
NoErr == <<"nil", 0>>
Running == <<"running", 0>>

\* The table lists getTables may return: <<1, ..., n>>.
TableLists == { [i \in 1..n |-> i] : n \in 0..MaxTables }

\* One piece of output: a fragment of a table's script or a metadata or
\* schema-wide section. A fragment's text ends with its blank line; body
\* tells a statement from the bare separator.
Frag(t, stage, body) == [table |-> t, frag |-> stage, body |-> body]
Meta(section) == [table |-> 0, frag |-> section, body |-> "stmt"]

\* -------------------------------------------------------------- scriptTable

\* A scriptTable that calls scriptConstraints with the other constraint
\* stages, before scriptIndexes.
StageOrderConstraintsFirst ==
  <<"create", "seq", "pk", "fk", "const", "idx", "trig", "copy">>

\* The stages of scriptTable in the order the code calls them.
StageOrder == <<"create", "seq", "pk", "fk", "idx", "const", "trig", "copy">>
StageSet == { StageOrder[k] : k \in 1..Len(StageOrder) }

\* scriptTable from stage k on. failAt: the stage whose collaborator returns
\* an error (0: none). A failing stage returns "" and an error. calls: the
\* stages invoked so far. The index stage appends its statement to the
\* buffer before it looks at err; every other stage looks at err first.
\* The result: str and err as returned, the stages invoked, and the local
\* buffer at the return.
RECURSIVE scriptStages(_, _, _, _, _)
scriptStages(t, failAt, k, buffer, calls) ==
  IF k > Len(StageOrder)
  THEN [str |-> buffer, err |-> NoErr, calls |-> calls, buffer |-> buffer]
  ELSE LET stage == StageOrder[k]
           failed == (k = failAt)
           called == Append(calls, stage)
           added  == Append(buffer, Frag(t, stage, "stmt"))
           blank  == Append(buffer, Frag(t, stage, "blank"))
       IN IF failed
          THEN [str |-> <<>>, err |-> Err(stage, t), calls |-> called,
                buffer |-> IF stage = "idx" THEN blank ELSE buffer]
          ELSE scriptStages(t, failAt, k + 1, added, called)

\* A scriptTable that does not look at the error of the index stage: the
\* next stage's err overwrites it.
RECURSIVE scriptStagesUncheckedIdx(_, _, _, _, _)
scriptStagesUncheckedIdx(t, failAt, k, buffer, calls) ==
  IF k > Len(StageOrder)
  THEN [str |-> buffer, err |-> NoErr, calls |-> calls, buffer |-> buffer]
  ELSE LET stage == StageOrder[k]
           failed == (k = failAt)
           called == Append(calls, stage)
           added  == Append(buffer, Frag(t, stage, "stmt"))
           blank  == Append(buffer, Frag(t, stage, "blank"))
       IN IF failed /\ stage # "idx"
          THEN [str |-> <<>>, err |-> Err(stage, t), calls |-> called,
                buffer |-> buffer]
          ELSE scriptStagesUncheckedIdx(t, failAt, k + 1,
                                        IF failed THEN blank ELSE added, called)

scriptTableUncheckedIdx(t, failAt) == scriptStagesUncheckedIdx(t, failAt, 1, <<>>, <<>>)

\* scriptTable(db, tableName)
scriptTable(t, failAt) == scriptStages(t, failAt, 1, <<>>, <<>>)

\* The script of a table all of whose stages succeed.
FullScript(t) == [k \in 1..Len(StageOrder) |-> Frag(t, StageOrder[k], "stmt")]

\* ------------------------------------------------------------ initial state

\* No scriptTable call is being followed stage by stage.
NoResult == [op |-> "none", fail |-> "none", text |-> <<>>, err |-> NoErr]

ScriptIdle ==
  /\ tableName = 0
  /\ catalog = <<>>
  /\ spc = "idle"
  /\ sbuffer = <<>>
  /\ scalls = <<>>
  /\ sstr = <<>>
  /\ serr = NoErr
  /\ last = NoResult

\* What Init leaves of the coordinators' state that is built later.
InitCoordinator ==
  /\ ret = Running
  /\ tables = <<>>
  /\ chunks = <<>>
  /\ ci = 1
  /\ si = 1
  /\ wpc = [t \in TableIds |-> "idle"]
  /\ str = [t \in TableIds |-> <<>>]
  /\ werr = [t \in TableIds |-> NoErr]
  /\ wpos = [t \in TableIds |-> 0]
  /\ wg = 0
  /\ mx = NoOne
  /\ out = <<>>
  /\ gerr = NoErr
  /\ gctx = "none"
  /\ gsem = 0
  /\ glimit = -1
  /\ files = [t \in TableIds |-> "absent"]
  /\ faults = {}

InitRest ==
  /\ InitCoordinator
  /\ ScriptIdle

\* A Dumper made by NewDumper(connectionString, threads), about to run
\* DumpDatabase.
Init ==
  /\ pc = "open"
  /\ Parallels \in { NewDumper(th) : th \in -1..MaxThreads }
  /\ InitRest

\* The coordinator returns e (the deferred Close calls change nothing here).
Return(e) ==
  /\ pc' = "done"
  /\ ret' = e

\* A step of the coordinator at `at` fails with its error and returns it.
Abort(op) ==
  /\ faults' = faults \cup {Err(op, 0)}
  /\ Return(Err(op, 0))

workerVars == <<wpc, str, werr, wpos>>
groupVars == <<gerr, gctx, gsem, glimit, files>>
listVars == <<Parallels, tables, chunks, ci, si>>

\* ------------------------------------------------------------ DumpDatabase

\* sql.Open
Open ==
  /\ pc = "open"
  /\ \/ /\ pc' = "create"
        /\ UNCHANGED <<ret, faults>>
     \/ Abort("open")
  /\ UNCHANGED <<listVars, workerVars, groupVars, wg, mx, out>>
  /\ UNCHANGED scriptVars

\* os.Create(outputFile): an empty file.
Create ==
  /\ pc = "create"
  /\ \/ /\ pc' = "header"
        /\ out' = <<>>
        /\ UNCHANGED <<ret, faults>>
     \/ /\ Abort("createOutput")
        /\ UNCHANGED out
  /\ UNCHANGED <<listVars, workerVars, groupVars, wg, mx>>
  /\ UNCHANGED scriptVars

\* A writeHeader that leaves the file as it is.
HeaderWritesNothing ==
  /\ pc = "header"
  /\ \/ /\ pc' = "getTables"
        /\ UNCHANGED <<ret, faults, out>>
     \/ /\ Abort("header")
        /\ UNCHANGED out
  /\ UNCHANGED <<listVars, workerVars, groupVars, wg, mx>>
  /\ UNCHANGED scriptVars

\* writeHeader(file, info)
Header ==
  /\ pc = "header"
  /\ \/ /\ pc' = "getTables"
        /\ out' = Append(out, Meta("header"))
        /\ UNCHANGED <<ret, faults>>
     \/ /\ Abort("header")
        /\ UNCHANGED out
  /\ UNCHANGED <<listVars, workerVars, groupVars, wg, mx>>
  /\ UNCHANGED scriptVars

\* getTables(db, opts), then chunks := chunkSlice(tables, d.Parallels) and
\* the range loop's start.
GetTables ==
  /\ pc = "getTables"
  /\ \/ /\ \E ts \in TableLists :
             /\ tables' = ts
             /\ chunks' = chunkSlice(ts, Parallels)
        /\ ci' = 1
        /\ pc' = "loop"
        /\ UNCHANGED <<ret, faults>>
     \/ /\ Abort("getTables")
        /\ UNCHANGED <<tables, chunks, ci>>
  /\ UNCHANGED <<Parallels, si, workerVars, groupVars, wg, mx, out>>
  /\ UNCHANGED scriptVars

\* The head of `for _, chunk := range chunks`: wg.Add(len(chunk)) for the
\* next chunk, or on to scriptViews after the last one.
LoopChunk ==
  /\ pc = "loop"
  /\ IF ci <= Len(chunks)
     THEN /\ wg' = wg + Len(chunks[ci])
          /\ si' = 1
          /\ pc' = "spawn"
     ELSE /\ pc' = "views"
          /\ UNCHANGED <<wg, si>>
  /\ UNCHANGED <<ret, Parallels, tables, chunks, ci, workerVars, groupVars,
                 mx, out, faults>>
  /\ UNCHANGED scriptVars

\* go func(table string) {...}(table) for the next table of the chunk.
Spawn ==
  /\ pc = "spawn"
  /\ wpc' = [wpc EXCEPT ![chunks[ci][si]] = "script"]
  /\ si' = si + 1
  /\ pc' = IF si = Len(chunks[ci]) THEN "wait" ELSE "spawn"
  /\ UNCHANGED <<ret, Parallels, tables, chunks, ci, str, werr, wpos,
                 groupVars, wg, mx, out, faults>>
  /\ UNCHANGED scriptVars

\* wg.Wait() returns when the counter is zero.
WaitReturnsAlways == TRUE

WaitReturns == wg = 0

Wait ==
  /\ pc = "wait"
  /\ WaitReturns
  /\ ci' = ci + 1
  /\ pc' = "loop"
  /\ UNCHANGED <<ret, Parallels, tables, chunks, si, workerVars, groupVars,
                 wg, mx, out, faults>>
  /\ UNCHANGED scriptVars

\* The worker's str, err := scriptTable(db, table) and `if err != nil
\* { return }`: on an error the worker goes to its deferred wg.Done.
RunScript(t) ==
  /\ wpc[t] = "script"
  /\ \E failAt \in 0..Len(StageOrder) :
       LET r == scriptTable(t, failAt) IN
         /\ str' = [str EXCEPT ![t] = r.str]
         /\ werr' = [werr EXCEPT ![t] = r.err]
         /\ wpc' = [wpc EXCEPT ![t] = IF r.err # NoErr THEN "exit" ELSE "lock"]
         /\ faults' = IF failAt = 0 THEN faults
                      ELSE faults \cup {Err("stage", t)}
  /\ UNCHANGED <<pc, ret, listVars, wpos, groupVars, wg, mx, out>>
  /\ UNCHANGED scriptVars

\* mx.Lock() is granted when nobody holds the mutex.
CanLockAlways == TRUE

CanLock == mx = NoOne

Lock(t) ==
  /\ wpc[t] = "lock"
  /\ CanLock
  /\ mx' = t
  /\ wpc' = [wpc EXCEPT ![t] = "write"]
  /\ wpos' = [wpos EXCEPT ![t] = 0]
  /\ UNCHANGED <<pc, ret, listVars, str, werr, groupVars, wg, out, faults>>
  /\ UNCHANGED scriptVars

\* file.WriteString(str): the file's write loop, one fragment a step. It
\* ends when all of str is written, or at a write error, which the worker
\* does not look at.
WriteString(t) ==
  /\ wpc[t] = "write"
  /\ \/ /\ wpos[t] < Len(str[t])
        /\ out' = Append(out, str[t][wpos[t] + 1])
        /\ wpos' = [wpos EXCEPT ![t] = wpos[t] + 1]
        /\ UNCHANGED <<wpc, faults>>
     \/ /\ wpos[t] = Len(str[t])
        /\ wpc' = [wpc EXCEPT ![t] = "unlock"]
        /\ UNCHANGED <<out, wpos, faults>>
     \/ /\ wpos[t] < Len(str[t])
        /\ faults' = faults \cup {Err("write", t)}
        /\ wpc' = [wpc EXCEPT ![t] = "unlock"]
        /\ UNCHANGED <<out, wpos>>
  /\ UNCHANGED <<pc, ret, listVars, str, werr, groupVars, wg, mx>>
  /\ UNCHANGED scriptVars

\* mx.Unlock()
Unlock(t) ==
  /\ wpc[t] = "unlock"
  /\ mx' = NoOne
  /\ wpc' = [wpc EXCEPT ![t] = "exit"]
  /\ UNCHANGED <<pc, ret, listVars, str, werr, wpos, groupVars, wg, out, faults>>
  /\ UNCHANGED scriptVars

\* defer wg.Done(): it runs on every return of the worker, after an error
\* (failed) as after the write.
DoneOnlyAfterWrite(failed) == ~failed

DeferredDone(failed) == TRUE

\* The worker returns: its deferred wg.Done runs and its locals are gone.
Exit(t) ==
  /\ wpc[t] = "exit"
  /\ wg' = IF DeferredDone(werr[t] # NoErr) THEN wg - 1 ELSE wg
  /\ wpc' = [wpc EXCEPT ![t] = "done"]
  /\ str' = [str EXCEPT ![t] = <<>>]
  /\ werr' = [werr EXCEPT ![t] = NoErr]
  /\ wpos' = [wpos EXCEPT ![t] = 0]
  /\ UNCHANGED <<pc, ret, listVars, groupVars, mx, out, faults>>
  /\ UNCHANGED scriptVars

\* Whether an error of scriptViews / scriptFunctions is returned.
SectionErrIgnored(e) == FALSE

SectionErrReturned(e) == e # NoErr

\* viewsSQL, err := scriptViews(db), `if err != nil { return err }`, then
\* file.WriteString(viewsSQL), whose error is not looked at.
Views ==
  /\ pc = "views"
  /\ \/ /\ pc' = "funcs"
        /\ out' = Append(out, Meta("views"))
        /\ UNCHANGED <<ret, faults>>
     \/ /\ pc' = "funcs"
        /\ faults' = faults \cup {Err("writeViews", 0)}
        /\ UNCHANGED <<ret, out>>
     \/ /\ faults' = faults \cup {Err("views", 0)}
        /\ IF SectionErrReturned(Err("views", 0))
           THEN Return(Err("views", 0))
           ELSE pc' = "funcs" /\ UNCHANGED ret
        /\ UNCHANGED out
  /\ UNCHANGED <<listVars, workerVars, groupVars, wg, mx>>
  /\ UNCHANGED scriptVars

\* funcsSQL, err := scriptFunctions(db), `if err != nil { return err }`,
\* then file.WriteString(funcsSQL), whose error is not looked at.
Functions ==
  /\ pc = "funcs"
  /\ \/ /\ pc' = "footer"
        /\ out' = Append(out, Meta("funcs"))
        /\ UNCHANGED <<ret, faults>>
     \/ /\ pc' = "footer"
        /\ faults' = faults \cup {Err("writeFuncs", 0)}
        /\ UNCHANGED <<ret, out>>
     \/ /\ faults' = faults \cup {Err("funcs", 0)}
        /\ IF SectionErrReturned(Err("funcs", 0))
           THEN Return(Err("funcs", 0))
           ELSE pc' = "footer" /\ UNCHANGED ret
        /\ UNCHANGED out
  /\ UNCHANGED <<listVars, workerVars, groupVars, wg, mx>>
  /\ UNCHANGED scriptVars

\* writeFooter(file, info), then return nil.
Footer ==
  /\ pc = "footer"
  /\ \/ /\ out' = Append(out, Meta("footer"))
        /\ Return(NoErr)
        /\ UNCHANGED faults
     \/ /\ Abort("footer")
        /\ UNCHANGED out
  /\ UNCHANGED <<listVars, workerVars, groupVars, wg, mx>>
  /\ UNCHANGED scriptVars

Worker(t) ==
  \/ RunScript(t)
  \/ Lock(t)
  \/ WriteString(t)
  \/ Unlock(t)
  \/ Exit(t)

Next ==
  \/ Open
  \/ Create
  \/ Header
  \/ GetTables
  \/ LoopChunk
  \/ Spawn
  \/ Wait
  \/ \E t \in TableIds : Worker(t)
  \/ Views
  \/ Functions
  \/ Footer

Spec == Init /\ [][Next]_vars

\* The steps of DumpDatabase's own goroutine.
Coordinator ==
  \/ Open
  \/ Create
  \/ Header
  \/ GetTables
  \/ LoopChunk
  \/ Spawn
  \/ Wait
  \/ Views
  \/ Functions
  \/ Footer

\* The schema dump when every call returns and the Go scheduler runs every
\* goroutine that can take a step.
SpecFair ==
  /\ Spec
  /\ WF_vars(Coordinator)
  /\ \A t \in TableIds : WF_vars(Worker(t))

\* -------------------------------------------------------------- DumpDBToCSV

\* A Dumper made by NewDumper, about to run DumpDBToCSV on a fresh
\* destination directory.
InitCSV ==
  /\ pc = "csvOpen"
  /\ Parallels \in { NewDumper(th) : th \in -1..MaxThreads }
  /\ InitRest

dumpVars == <<str, wpos, mx>>

\* sql.Open
CsvOpen ==
  /\ pc = "csvOpen"
  /\ \/ /\ pc' = "csvCreate"
        /\ UNCHANGED <<ret, faults>>
     \/ Abort("open")
  /\ UNCHANGED <<listVars, wpc, werr, dumpVars, groupVars, wg, out>>
  /\ UNCHANGED scriptVars

\* os.Create(path.Join(outputDIR, outputFile)): the metadata file.
CsvCreate ==
  /\ pc = "csvCreate"
  /\ \/ /\ pc' = "csvHeader"
        /\ out' = <<>>
        /\ UNCHANGED <<ret, faults>>
     \/ /\ Abort("createOutput")
        /\ UNCHANGED out
  /\ UNCHANGED <<listVars, wpc, werr, dumpVars, groupVars, wg>>
  /\ UNCHANGED scriptVars

\* writeHeader(file, info)
CsvHeader ==
  /\ pc = "csvHeader"
  /\ \/ /\ pc' = "csvFooter"
        /\ out' = Append(out, Meta("header"))
        /\ UNCHANGED <<ret, faults>>
     \/ /\ Abort("header")
        /\ UNCHANGED out
  /\ UNCHANGED <<listVars, wpc, werr, dumpVars, groupVars, wg>>
  /\ UNCHANGED scriptVars

\* writeFooter(file, info)
CsvFooter ==
  /\ pc = "csvFooter"
  /\ \/ /\ pc' = "csvGetTables"
        /\ out' = Append(out, Meta("footer"))
        /\ UNCHANGED <<ret, faults>>
     \/ /\ Abort("footer")
        /\ UNCHANGED out
  /\ UNCHANGED <<listVars, wpc, werr, dumpVars, groupVars, wg>>
  /\ UNCHANGED scriptVars

\* getTables(db, opts), chunks := chunkSlice(tables, d.Parallels), and
\* g, _ := errgroup.WithContext(context.Background()): the group keeps the
\* context's cancel function, the context itself is dropped.
CsvGetTables ==
  /\ pc = "csvGetTables"
  /\ \/ /\ \E ts \in TableLists :
             /\ tables' = ts
             /\ chunks' = chunkSlice(ts, Parallels)
        /\ ci' = 1
        /\ gctx' = "live"
        /\ pc' = "csvLoop"
        /\ UNCHANGED <<ret, faults>>
     \/ /\ Abort("getTables")
        /\ UNCHANGED <<tables, chunks, ci, gctx>>
  /\ UNCHANGED <<Parallels, si, wpc, werr, dumpVars, gerr, gsem, glimit,
                 files, wg, out>>
  /\ UNCHANGED scriptVars

\* The head of `for _, chunk := range chunks`: g.SetLimit(len(chunk)) for
\* the next chunk (SetLimit panics while goroutines of the group are
\* active), or return nil after the last one.
CsvLoopChunk ==
  /\ pc = "csvLoop"
  /\ IF ci <= Len(chunks)
     THEN IF gsem # 0
          THEN /\ Return(Err("panic", 0))
               /\ UNCHANGED <<glimit, si>>
          ELSE /\ glimit' = Len(chunks[ci])
               /\ si' = 1
               /\ pc' = "csvSpawn"
               /\ UNCHANGED ret
     ELSE /\ Return(NoErr)
          /\ UNCHANGED <<glimit, si>>
  /\ UNCHANGED <<Parallels, tables, chunks, ci, wpc, werr, dumpVars, gerr,
                 gctx, gsem, files, wg, out, faults>>
  /\ UNCHANGED scriptVars

\* g.Go(func() error {...}) for the next table of the chunk: Go waits for a
\* free token of g.sem, adds one to the group's WaitGroup and starts the
\* goroutine. It does not look at g.err or at the context.
CsvGo ==
  /\ pc = "csvSpawn"
  /\ glimit < 0 \/ gsem < glimit
  /\ gsem' = gsem + 1
  /\ wg' = wg + 1
  /\ wpc' = [wpc EXCEPT ![chunks[ci][si]] = "fetch"]
  /\ si' = si + 1
  /\ pc' = IF si = Len(chunks[ci]) THEN "csvWait" ELSE "csvSpawn"
  /\ UNCHANGED <<ret, Parallels, tables, chunks, ci, werr, dumpVars, gerr,
                 gctx, glimit, files, out, faults>>
  /\ UNCHANGED scriptVars

\* The error g.Wait() hands to `if err := g.Wait(); err != nil`.
WaitErrDropped == NoErr

WaitErr == gerr

\* g.Wait(): when the group's WaitGroup is at zero it cancels the context
\* and returns g.err; the coordinator returns a non-nil error.
CsvWait ==
  /\ pc = "csvWait"
  /\ wg = 0
  /\ gctx' = "cancelled"
  /\ IF WaitErr # NoErr
     THEN /\ Return(WaitErr)
          /\ UNCHANGED ci
     ELSE /\ ci' = ci + 1
          /\ pc' = "csvLoop"
          /\ UNCHANGED ret
  /\ UNCHANGED <<Parallels, tables, chunks, si, wpc, werr, dumpVars, gerr,
                 gsem, glimit, files, wg, out, faults>>
  /\ UNCHANGED scriptVars

\* The worker fails at `op`: its function returns the error.
CsvFail(t, op) ==
  /\ werr' = [werr EXCEPT ![t] = Err(op, t)]
  /\ wpc' = [wpc EXCEPT ![t] = "return"]
  /\ faults' = faults \cup {Err(op, t)}

\* records, err := getTableDataAsCSV(db, table)
CsvFetch(t) ==
  /\ wpc[t] = "fetch"
  /\ \/ /\ wpc' = [wpc EXCEPT ![t] = "createFile"]
        /\ UNCHANGED <<werr, faults>>
     \/ CsvFail(t, "fetch")
  /\ UNCHANGED <<pc, ret, listVars, dumpVars, groupVars, wg, out>>
  /\ UNCHANGED scriptVars

\* f, err := os.Create(path.Join(outputDIR, table+".csv"))
CsvCreateFile(t) ==
  /\ wpc[t] = "createFile"
  /\ \/ /\ wpc' = [wpc EXCEPT ![t] = "writeAll"]
        /\ files' = [files EXCEPT ![t] = "empty"]
        /\ UNCHANGED <<werr, faults>>
     \/ /\ CsvFail(t, "createFile")
        /\ UNCHANGED files
  /\ UNCHANGED <<pc, ret, listVars, dumpVars, gerr, gctx, gsem, glimit, wg, out>>
  /\ UNCHANGED scriptVars

\* A worker whose records also go to the metadata file.
CsvWriteAllToMeta(t) ==
  /\ wpc[t] = "writeAll"
  /\ \/ /\ wpc' = [wpc EXCEPT ![t] = "return"]
        /\ files' = [files EXCEPT ![t] = "full"]
        /\ out' = Append(out, Frag(t, "copy", "stmt"))
        /\ UNCHANGED <<werr, faults>>
     \/ /\ CsvFail(t, "writeAll")
        /\ \E left \in {"empty", "partial"} : files' = [files EXCEPT ![t] = left]
        /\ UNCHANGED out
  /\ UNCHANGED <<pc, ret, listVars, dumpVars, gerr, gctx, gsem, glimit, wg>>
  /\ UNCHANGED scriptVars

\* csvWriter.WriteAll(records) (it flushes), csvWriter.Flush(), return nil;
\* on a write error the function returns it, and the file stays as the
\* write left it. The deferred f.Close() removes nothing.
CsvWriteAll(t) ==
  /\ wpc[t] = "writeAll"
  /\ \/ /\ wpc' = [wpc EXCEPT ![t] = "return"]
        /\ files' = [files EXCEPT ![t] = "full"]
        /\ UNCHANGED <<werr, faults>>
     \/ /\ CsvFail(t, "writeAll")
        /\ \E left \in {"empty", "partial"} : files' = [files EXCEPT ![t] = left]
  /\ UNCHANGED <<pc, ret, listVars, dumpVars, gerr, gctx, gsem, glimit, wg, out>>
  /\ UNCHANGED scriptVars

\* The group's wrapper around the worker function, after it returned: the
\* first non-nil error is kept in g.err and cancels the context (errOnce);
\* the deferred g.done() frees the token and does wg.Done().
CsvReturn(t) ==
  /\ wpc[t] = "return"
  /\ IF werr[t] # NoErr
     THEN /\ gerr' = IF gerr = NoErr THEN werr[t] ELSE gerr
          /\ gctx' = "cancelled"
     ELSE UNCHANGED <<gerr, gctx>>
  /\ gsem' = gsem - 1
  /\ wg' = wg - 1
  /\ wpc' = [wpc EXCEPT ![t] = "done"]
  /\ werr' = [werr EXCEPT ![t] = NoErr]
  /\ UNCHANGED <<pc, ret, listVars, dumpVars, glimit, files, out, faults>>
  /\ UNCHANGED scriptVars

CsvWorker(t) ==
  \/ CsvFetch(t)
  \/ CsvCreateFile(t)
  \/ CsvWriteAll(t)
  \/ CsvReturn(t)

NextCSV ==
  \/ CsvOpen
  \/ CsvCreate
  \/ CsvHeader
  \/ CsvFooter
  \/ CsvGetTables
  \/ CsvLoopChunk
  \/ CsvGo
  \/ CsvWait
  \/ \E t \in TableIds : CsvWorker(t)

SpecCSV == InitCSV /\ [][NextCSV]_vars

\* Either export, DumpDatabase or DumpDBToCSV, of a Dumper.
SpecBoth == (Init \/ InitCSV) /\ [][Next \/ NextCSV]_vars

\* ------------------------------------------------- chunkSlice on its own

\* The slices chunkSlice is applied to: every list of at most MaxLen names.
Slices == UNION { [1..n -> 1..MaxLen] : n \in 0..MaxLen }

InitChunk ==
  /\ pc = "chunkInput"
  /\ Parallels \in -MaxK..MaxK
  /\ \E s \in Slices :
       /\ tables = s
       /\ ret = Running
       /\ chunks = <<>>
       /\ ci = 1
       /\ si = 1
       /\ wpc = [t \in TableIds |-> "idle"]
       /\ str = [t \in TableIds |-> <<>>]
       /\ werr = [t \in TableIds |-> NoErr]
       /\ wpos = [t \in TableIds |-> 0]
       /\ wg = 0
       /\ mx = NoOne
       /\ out = <<>>
       /\ gerr = NoErr
       /\ gctx = "none"
       /\ gsem = 0
       /\ glimit = -1
       /\ files = [t \in TableIds |-> "absent"]
       /\ faults = {}
       /\ ScriptIdle

\* chunks := chunkSlice(tables, d.Parallels)
ApplyChunkSlice ==
  /\ pc = "chunkInput"
  /\ chunks' = chunkSlice(tables, Parallels)
  /\ pc' = "chunked"
  /\ UNCHANGED <<ret, Parallels, tables, ci, si, workerVars, groupVars, wg,
                 mx, out, faults>>
  /\ UNCHANGED scriptVars

NextChunk == ApplyChunkSlice

SpecChunk == InitChunk /\ [][NextChunk]_vars

\* ------------------------------------------ catalog operations, scriptTable

\* The most constraints a table has in pg_constraint, and the most rows the
\* sequence, index, trigger, view and function queries return.
MaxConstraints == 2
MaxRows == 1

\* pg_constraint.contype: primary key, foreign key, unique, check, and "x"
\* (exclusion) for the kinds no stage selects.
Kinds == {"p", "f", "u", "c", "x"}
Catalogs == UNION { [1..n -> Kinds] : n \in 0..MaxConstraints }

\* The contype values the WHERE clause of a constraint query selects.
Selects(op) ==
  CASE op = "pk" -> {"p"}
    [] op = "fk" -> {"f"}
    [] op = "const" -> {"u", "c"}
    [] OTHER -> {}

\* The rows the query of a constraint operation returns: the table's
\* constraints (by their number) of the kinds it selects.
RECURSIVE matching(_, _, _)
matching(cat, kinds, i) ==
  IF i > Len(cat) THEN <<>>
  ELSE (IF cat[i] \in kinds THEN <<i>> ELSE <<>>) \o matching(cat, kinds, i + 1)

ConstraintRows(op, cat) == matching(cat, Selects(op), 1)

\* The rows of the other queries.
PlainRows == { [i \in 1..n |-> i] : n \in 0..MaxRows }

\* How a catalog operation can fail: db.Query fails; rows.Scan fails at
\* row `at`; rows.Next ends the loop with an error after `at` rows.
NoFailure == [kind |-> "none", at |-> 0]
Failures(rows) ==
  {NoFailure, [kind |-> "query", at |-> 0]}
    \cup { [kind |-> "scan", at |-> i] : i \in 1..Len(rows) }
    \cup { [kind |-> "iter", at |-> i] : i \in 0..Len(rows) }

\* The operations that look at rows.Err() after the loop.
ChecksRowsErr(op) == op \in {"seq", "pk"}

\* The statement an operation writes for a row: the constraint operations
\* write ALTER TABLE ... ADD CONSTRAINT <name> <definition>.
Stmt(op, row) ==
  [stmt |-> IF op \in {"pk", "fk", "const"} THEN "ADD CONSTRAINT" ELSE op,
   name |-> row]

\* `for rows.Next() {...}` and what follows it, after i rows.
RECURSIVE rowLoop(_, _, _, _, _)
rowLoop(op, rows, fail, i, text) ==
  IF i = Len(rows) \/ (fail.kind = "iter" /\ fail.at = i)
  THEN IF ChecksRowsErr(op) /\ fail.kind = "iter"
       THEN [text |-> <<>>, err |-> Err(op, 0)]
       ELSE [text |-> text, err |-> NoErr]
  ELSE IF fail.kind = "scan" /\ fail.at = i + 1
       THEN [text |-> <<>>, err |-> Err(op, 0)]
       ELSE rowLoop(op, rows, fail, i + 1, Append(text, Stmt(op, rows[i + 1])))

\* scriptSequences, scriptPrimaryKeys, scriptForeignKeys, scriptIndexes,
\* scriptTriggers, scriptConstraints, scriptViews, scriptFunctions: the
\* text and the error returned.
Introspect(op, rows, fail) ==
  IF fail.kind = "query"
  THEN [text |-> <<>>, err |-> Err(op, 0)]
  ELSE rowLoop(op, rows, fail, 0, <<>>)

\* getCreateTableStatement, getTableDataCopyFormat: a statement or an error.
External(op, fail) ==
  IF fail.kind = "none"
  THEN [text |-> <<Stmt(op, 0)>>, err |-> NoErr]
  ELSE [text |-> <<>>, err |-> Err(op, 0)]

\* A fragment of the buffer: a stage's text and its blank line.
SFrag(t, stage, text) == [table |-> t, frag |-> stage, text |-> text]

\* The stage scriptTable calls after `stage`.
NextStage(stage) ==
  LET k == CHOOSE i \in 1..Len(StageOrder) : StageOrder[i] = stage
  IN IF k = Len(StageOrder) THEN "returned" ELSE StageOrder[k + 1]

\* The index stage appends to the buffer before it looks at err.
AppendsBeforeCheck(stage) == stage = "idx"

\* What scriptTable returns as the script when a stage has failed.
ErrorReturnsBuffer(buf) == buf

ErrorReturn(buf) == <<>>

\* scriptTable called for a table with some catalog, or scriptViews /
\* scriptFunctions called on their own.
InitScript ==
  /\ pc = "script"
  /\ Parallels = NewDumper(0)
  /\ InitCoordinator
  /\ spc \in {"create", "views", "funcs"}
  /\ tableName \in (IF spc = "create" THEN TableIds ELSE {0})
  /\ catalog \in (IF spc = "create" THEN Catalogs ELSE {<<>>})
  /\ sbuffer = <<>>
  /\ scalls = <<>>
  /\ sstr = <<>>
  /\ serr = NoErr
  /\ last = NoResult

coordinatorVars == <<pc, ret, Parallels, tables, chunks, ci, si, wpc, str, werr,
                     wpos, wg, mx, out, gerr, gctx, gsem, glimit, files, faults>>

\* One stage of scriptTable: the call, r its result under failure f, the
\* err check and the append to the buffer; scriptTable returns after a
\* failed stage and after the last one.
RunStage(stage, f, r) ==
  LET appended == Append(sbuffer, SFrag(tableName, stage, r.text)) IN
    /\ scalls' = Append(scalls, stage)
    /\ last' = [op |-> stage, fail |-> f.kind, text |-> r.text, err |-> r.err]
    /\ IF r.err # NoErr
       THEN /\ sbuffer' = IF AppendsBeforeCheck(stage) THEN appended ELSE sbuffer
            /\ sstr' = ErrorReturn(sbuffer')
            /\ serr' = Err(stage, tableName)
            /\ spc' = "returned"
       ELSE /\ sbuffer' = appended
            /\ spc' = NextStage(stage)
            /\ sstr' = IF NextStage(stage) = "returned" THEN appended ELSE sstr
            /\ UNCHANGED serr
    /\ UNCHANGED <<tableName, catalog, coordinatorVars>>

\* createStmt, err := getCreateTableStatement(db, tableName)
StageCreate ==
  /\ spc = "create"
  /\ \E f \in {NoFailure, [kind |-> "query", at |-> 0]} :
       RunStage("create", f, External("create", f))

\* seqStmts, err := scriptSequences(db, tableName)
StageSequences ==
  /\ spc = "seq"
  /\ \E rows \in PlainRows : \E f \in Failures(rows) :
       RunStage("seq", f, Introspect("seq", rows, f))

\* pkStmt, err := scriptPrimaryKeys(db, tableName)
StagePrimaryKeys ==
  /\ spc = "pk"
  /\ \E f \in Failures(ConstraintRows("pk", catalog)) :
       RunStage("pk", f, Introspect("pk", ConstraintRows("pk", catalog), f))

\* fkStmt, err := scriptForeignKeys(db, tableName)
StageForeignKeys ==
  /\ spc = "fk"
  /\ \E f \in Failures(ConstraintRows("fk", catalog)) :
       RunStage("fk", f, Introspect("fk", ConstraintRows("fk", catalog), f))

\* idxStmt, err := scriptIndexes(db, tableName)
StageIndexes ==
  /\ spc = "idx"
  /\ \E rows \in PlainRows : \E f \in Failures(rows) :
       RunStage("idx", f, Introspect("idx", rows, f))

\* constStmt, err := scriptConstraints(db, tableName)
StageConstraints ==
  /\ spc = "const"
  /\ \E f \in Failures(ConstraintRows("const", catalog)) :
       RunStage("const", f, Introspect("const", ConstraintRows("const", catalog), f))

\* triggerStmt, err := scriptTriggers(db, tableName)
StageTriggers ==
  /\ spc = "trig"
  /\ \E rows \in PlainRows : \E f \in Failures(rows) :
       RunStage("trig", f, Introspect("trig", rows, f))

\* copyStmt, err := getTableDataCopyFormat(db, tableName)
StageCopy ==
  /\ spc = "copy"
  /\ \E f \in {NoFailure, [kind |-> "query", at |-> 0]} :
       RunStage("copy", f, External("copy", f))

\* scriptViews(db) or scriptFunctions(db), called on its own.
SchemaWide(op) ==
  /\ spc = op
  /\ \E rows \in PlainRows : \E f \in Failures(rows) :
       LET r == Introspect(op, rows, f) IN
         /\ last' = [op |-> op, fail |-> f.kind, text |-> r.text, err |-> r.err]
         /\ sstr' = r.text
         /\ serr' = r.err
  /\ spc' = "returned"
  /\ UNCHANGED <<tableName, catalog, sbuffer, scalls, coordinatorVars>>

ScriptViews == SchemaWide("views")

ScriptFunctions == SchemaWide("funcs")

NextScript ==
  \/ StageCreate
  \/ StageSequences
  \/ StagePrimaryKeys
  \/ StageForeignKeys
  \/ StageIndexes
  \/ StageConstraints
  \/ StageTriggers
  \/ StageCopy
  \/ ScriptViews
  \/ ScriptFunctions

SpecScript == InitScript /\ [][NextScript]_vars

\* ======================================================================
\* Properties
\* ======================================================================

RECURSIVE Flatten(_)
Flatten(ss) == IF ss = <<>> THEN <<>> ELSE Head(ss) \o Flatten(Tail(ss))

\* The tables of the list, and those of batch i.
TableSet == { tables[i] : i \in 1..Len(tables) }
Batch(i) == { chunks[i][j] : j \in 1..Len(chunks[i]) }
BatchOf(t) == CHOOSE i \in 1..Len(chunks) : t \in Batch(i)

\* A stage of t's pipeline has failed; the write of t's block has failed.
StageFailed(t) == Err("stage", t) \in faults
WriteFailed(t) == Err("write", t) \in faults

\* The positions of the output that hold bytes of table t, and the
\* fragments there, in order.
BytesOf(t) == { i \in 1..Len(out) : out[i].table = t }
BlockOf(t) == SelectSeq(out, LAMBDA e : e.table = t)

\* Every table's bytes lie next to each other in the output.
Contiguous ==
  \A i, k \in 1..Len(out) :
    (i < k /\ out[i].table # 0 /\ out[i].table = out[k].table)
      => \A j \in i..k : out[j].table = out[i].table

SectionWritten(section) == \E i \in 1..Len(out) : out[i] = Meta(section)

\* C1: for a list of N tables and a batch size K > 0, chunkSlice returns
\* ceil(N/K) batches, each of 1..K elements, whose concatenation in order
\* is the list (no batches for N = 0).
C1_ChunkerPartitions ==
  (pc = "chunked" /\ Parallels > 0) =>
    LET N == Len(tables)
        K == Parallels
    IN /\ Len(chunks) = (N + K - 1) \div K
       /\ \A i \in 1..Len(chunks) : Len(chunks[i]) >= 1 /\ Len(chunks[i]) <= K
       /\ Flatten(chunks) = tables
       /\ (N = 0 => chunks = <<>>)

\* chunkSlice has run on a list that its batch size does not divide.
C1_Witness ==
  /\ pc = "chunked"
  /\ Parallels = 2
  /\ Len(tables) = 3
  /\ Len(chunks) = 2
  /\ Len(chunks[2]) = 1

\* C2: for a batch size K <= 0 chunkSlice returns what it returns for
\* K = 1: one single-element batch per table, in input order.
C2_NonPositiveIsOne ==
  (pc = "chunked" /\ Parallels <= 0) =>
    /\ chunks = [i \in 1..Len(tables) |-> <<tables[i]>>]
    /\ chunks = chunkLoop(tables, 1, 0, <<>>)

\* chunkSlice has run with a non-positive batch size on several tables.
C2_Witness ==
  /\ pc = "chunked"
  /\ Parallels < 0
  /\ Len(tables) >= 2
  /\ Len(chunks) = Len(tables)

\* C3: in the schema dump, when a stage of a table's pipeline fails the
\* output never holds a byte of that table: the worker gets the empty
\* script with the error and returns before the append. What a worker
\* appends is always the complete script, so a finished worker whose write
\* did not fail has left its table's whole block or nothing.
C3_FailedTableWritesNothing ==
  \A t \in TableIds :
    /\ StageFailed(t) =>
         /\ BytesOf(t) = {}
         /\ str[t] = <<>>
         /\ wpc[t] \in {"exit", "done"}
    /\ wpc[t] \in {"lock", "write", "unlock"} => str[t] = FullScript(t)
    /\ (wpc[t] = "done" /\ ~WriteFailed(t)) =>
         BlockOf(t) \in {<<>>, FullScript(t)}

\* A worker is returning with the error of its table's index stage while
\* the whole block of another table of its batch is in the output.
C3_Witness ==
  /\ \E t, u \in TableSet :
       /\ StageFailed(t)
       /\ werr[t] = Err("idx", t)
       /\ wpc[t] = "exit"
       /\ BatchOf(u) = BatchOf(t)
       /\ BlockOf(u) = FullScript(u)

\* C4: in the schema dump at most one worker is between mx.Lock() and
\* mx.Unlock(), it is the holder of the mutex, and every table's block is
\* contiguous in the output.
C4_WriterExclusive ==
  /\ Cardinality({ t \in TableIds : wpc[t] \in {"write", "unlock"} }) <= 1
  /\ \A t \in TableIds : wpc[t] \in {"write", "unlock"} => mx = t
  /\ Contiguous

\* One worker is in the middle of its append while a worker of the same
\* batch waits for the mutex.
C4_Witness ==
  \E t, u \in TableSet :
    /\ t # u
    /\ wpc[t] = "write"
    /\ wpos[t] >= 1
    /\ wpos[t] < Len(str[t])
    /\ wpc[u] = "lock"
    /\ BatchOf(t) = BatchOf(u)

\* C5: in the schema dump the view and function sections are written only
\* after the last batch's join: while the coordinator is at either section,
\* and whenever either is in the output, every worker has finished and the
\* WaitGroup is at zero, and no table fragment follows a section.
C5_SectionsAfterLastJoin ==
  /\ (pc \in {"views", "funcs"} \/ SectionWritten("views") \/ SectionWritten("funcs"))
       => /\ \A t \in TableSet : wpc[t] = "done"
          /\ wg = 0
          /\ mx = NoOne
          /\ ci > Len(chunks)
  /\ \A i, j \in 1..Len(out) :
       (i < j /\ out[i].frag \in {"views", "funcs"}) => out[j].table = 0

\* Both sections are written after two batches of tables.
C5_Witness ==
  /\ SectionWritten("views")
  /\ SectionWritten("funcs")
  /\ Len(chunks) >= 2
  /\ \E t \in TableSet : BytesOf(t) # {}

\* C6: in the schema dump a table's pipeline failure stays with its worker:
\* DumpDatabase never returns a table's error; the failed worker still
\* signals the WaitGroup, so a join whose workers have all finished is not
\* held up; every table whose pipeline and write did not fail has its
\* whole block appended once its worker has finished; and once the
\* coordinator is past the batches every table has been processed.
C6_TableFailureAbsorbed ==
  /\ ret[2] = 0
  /\ ret[1] \notin StageSet \cup {"stage"}
  /\ (pc = "wait" /\ \A t \in Batch(ci) : wpc[t] = "done") => wg = 0
  /\ \A t \in TableIds :
       (wpc[t] = "done" /\ ~StageFailed(t) /\ ~WriteFailed(t))
         => BlockOf(t) = FullScript(t)
  /\ pc \in {"views", "funcs", "footer"} => \A t \in TableSet : wpc[t] = "done"
  /\ (pc = "done" /\ \E t \in TableSet : wpc[t] # "idle")
       => /\ \A t \in TableSet : wpc[t] = "done"
          /\ ret \in {NoErr, Err("views", 0), Err("funcs", 0), Err("footer", 0)}

\* A table failed, yet another table, of its batch or of a later one, has
\* its whole block in the output and the dump returned nil after the
\* view section, the function section and the footer.
C6_Witness ==
  /\ pc = "done"
  /\ ret = NoErr
  /\ SectionWritten("views") /\ SectionWritten("funcs") /\ SectionWritten("footer")
  /\ \E t, u \in TableSet :
       /\ StageFailed(t)
       /\ u # t
       /\ BatchOf(u) >= BatchOf(t)
       /\ BlockOf(u) = FullScript(u)

\* The failures the claim C7 lists as aborting the job, and those that do.
AbortingListed ==
  { Err(op, 0) : op \in {"open", "createOutput", "header", "footer", "getTables"} }
AbortingInCode == AbortingListed \cup {Err("views", 0), Err("funcs", 0)}

\* C7 as stated: only connection-open, output-create, header/footer-write
\* and table-list failures abort the schema dump; with none of these the
\* dump runs to the footer and returns no error.
C7_OnlyListedFailuresAbort ==
  /\ ret \in {Running, NoErr} \cup AbortingListed
  /\ (pc = "done" /\ faults \cap AbortingListed = {})
       => (ret = NoErr /\ SectionWritten("footer"))

\* C7 amended: the failures that abort the schema dump are connection-open,
\* output-create, header/footer-write, table-list retrieval and the
\* scriptViews and scriptFunctions failures: each of them is returned at
\* once, nothing else is ever returned, and with none of them (whatever
\* pipeline stages and ignored writes failed) the dump ends with the footer
\* written and nil returned.
C7_AbortingFailures ==
  /\ ret \in {Running, NoErr} \cup AbortingInCode
  /\ ret \notin {Running, NoErr} => ret \in faults
  /\ faults \cap AbortingInCode # {} =>
       (pc = "done" /\ faults \cap AbortingInCode = {ret})
  /\ (pc = "done" /\ faults \cap AbortingInCode = {})
       => (ret = NoErr /\ out[Len(out)] = Meta("footer"))

\* The dump returned nil after the footer although a pipeline stage, a
\* block write and the write of the view section failed.
C7_Witness ==
  /\ pc = "done"
  /\ ret = NoErr
  /\ SectionWritten("footer")
  /\ \E t, u \in TableSet : StageFailed(t) /\ WriteFailed(u)
  /\ Err("writeViews", 0) \in faults

\* C8 as stated: in the CSV export, once a worker of the batch has failed
\* (g.err is set and the context cancelled) no worker goes on to fetch
\* rows or to create or write its file: a worker only stays where it is,
\* is started, or returns, and no file changes.
C8_SiblingsStopped ==
  [][ gerr # NoErr =>
        /\ files' = files
        /\ \A t \in TableIds :
             wpc'[t] \in {wpc[t], "fetch", "return", "done"} ]_vars

\* C9: in the CSV export, when a table of a batch has failed no worker of a
\* later batch is ever started, and the export returns, once that batch's
\* workers have all finished, an error of a table of that batch.
TableFaults == { f \in faults : f[2] # 0 }

C9_FailedBatchEndsExport ==
  /\ \A f \in TableFaults : \A u \in TableSet :
       BatchOf(u) > BatchOf(f[2]) => wpc[u] = "idle"
  /\ (pc = "done" /\ TableFaults # {}) =>
       /\ ret \in TableFaults
       /\ ret[2] \in Batch(ci)
       /\ \A u \in Batch(ci) : wpc[u] = "done"
  /\ (TableFaults # {} /\ pc # "done") => pc \in {"csvSpawn", "csvWait"}

\* The export returned the error of a table of the first of two batches,
\* after that table's worker finished; the second batch never started.
C9_Witness ==
  /\ pc = "done"
  /\ Len(chunks) >= 2
  /\ ret \in TableFaults
  /\ \E t, u \in TableSet :
       /\ BatchOf(t) = 1 /\ ret[2] = t /\ wpc[t] = "done"
       /\ BatchOf(u) = 2 /\ wpc[u] = "idle"

\* C10 as stated: in the CSV export, when the worker for table T has
\* failed, T's file is absent from the output directory when the export
\* returns.
C10_FailedTableFileAbsent ==
  pc = "done" =>
    \A f \in TableFaults : files[f[2]] = "absent"

\* ------------------------------------------------- scriptTable, stage by stage

IsPrefix(a, b) == Len(a) <= Len(b) /\ a = SubSeq(b, 1, Len(a))

\* The stages of the fragments of a script, in order.
FragStages(script) == [k \in 1..Len(script) |-> script[k].frag]

\* The place the claim C11 gives a stage: create, sequences, the constraint
\* scripts, indexes, triggers, data copy.
ClaimedRank(stage) ==
  CASE stage = "create" -> 1
    [] stage = "seq" -> 2
    [] stage \in {"pk", "fk", "const"} -> 3
    [] stage = "idx" -> 4
    [] stage = "trig" -> 5
    [] stage = "copy" -> 6

\* C11 as stated: scriptTable invokes create, then sequences, then the
\* constraint scripts, then indexes, then triggers, then data copy: every
\* constraint stage before the index stage, and the fragments of the script
\* are in that order.
C11_ConstraintsBeforeIndexes ==
  /\ \A i, j \in 1..Len(scalls) :
       i < j => ClaimedRank(scalls[i]) <= ClaimedRank(scalls[j])
  /\ \A i, j \in 1..Len(sbuffer) :
       i < j => ClaimedRank(sbuffer[i].frag) <= ClaimedRank(sbuffer[j].frag)

\* C11 amended: scriptTable invokes create, sequences, primary keys,
\* foreign keys, indexes, unique/check constraints, triggers, data copy, in
\* this order, each at most once: the primary-key and foreign-key stages
\* before the index stage, scriptConstraints after it; the fragments of the
\* buffer and of a returned script are in the same order.
C11_StagesInCodeOrder ==
  LET order == <<"create", "seq", "pk", "fk", "idx", "const", "trig", "copy">> IN
    /\ IsPrefix(scalls, order)
    /\ IsPrefix(FragStages(sbuffer), scalls)
    /\ (spc = "returned" /\ tableName # 0 /\ serr = NoErr) =>
         /\ scalls = order
         /\ FragStages(sstr) = order
    /\ (spc \notin {"idle", "returned", "views", "funcs"}) =>
         /\ Len(scalls) < Len(order)
         /\ spc = order[Len(scalls) + 1]

\* scriptTable has returned a script after all eight stages.
C11_Witness ==
  /\ spc = "returned"
  /\ tableName # 0
  /\ serr = NoErr
  /\ Len(scalls) = 8
  /\ Len(sstr) = 8

\* C13: scriptTable is fail-fast: when a stage returns an error scriptTable
\* returns at once, so the failing stage is the last one invoked; the error
\* returned names the stage and the table; the script returned is empty,
\* also after the index stage, whose text is in the buffer by then. What
\* scriptTable returns is the empty script or the script of all stages, and
\* it is what the operator scriptTable gives for the same failing stage.
C13_FailFast ==
  /\ (last.err # NoErr) => spc = "returned"
  /\ (spc = "returned" /\ tableName # 0 /\ serr # NoErr) =>
       /\ sstr = <<>>
       /\ serr = Err(scalls[Len(scalls)], tableName)
       /\ last.op = scalls[Len(scalls)]
       /\ last.err # NoErr
       /\ scriptTable(tableName, Len(scalls)).err = serr
       /\ scriptTable(tableName, Len(scalls)).calls = scalls
       /\ Len(scriptTable(tableName, Len(scalls)).buffer) = Len(sbuffer)
  /\ (spc = "returned" /\ tableName # 0) =>
       /\ (serr = NoErr) = (Len(sstr) = Len(StageOrder))
       /\ sstr = <<>> \/ sstr = sbuffer

\* scriptTable has returned the error of the index stage: five fragments
\* are in its buffer and the stages after the index stage were not invoked.
C13_Witness ==
  /\ spc = "returned"
  /\ serr = Err("idx", tableName)
  /\ tableName # 0
  /\ Len(sbuffer) = 5
  /\ Len(scalls) = 5

\* C14 as stated: a catalog operation whose query, row scan or iteration
\* over the rows fails returns an error and no text.
C14_ErrorOnEveryFailure ==
  last.fail # "none" => (last.err # NoErr /\ last.text = <<>>)

\* How many ADD CONSTRAINT statements of a script name constraint i.
Emitted(script, i) ==
  Cardinality({ kj \in (1..Len(script)) \X (1..MaxConstraints + 1) :
                  /\ kj[2] <= Len(script[kj[1]].text)
                  /\ script[kj[1]].text[kj[2]] =
                       [stmt |-> "ADD CONSTRAINT", name |-> i] })

\* C20 as stated: in a script scriptTable returned with a nil error every
\* primary, foreign, unique and check constraint of the table has exactly
\* one ADD CONSTRAINT statement, and no constraint has two.
C20_EachConstraintOnce ==
  (spc = "returned" /\ tableName # 0 /\ serr = NoErr) =>
    \A i \in 1..Len(catalog) :
      /\ Emitted(sstr, i) <= 1
      /\ catalog[i] \in {"p", "f", "u", "c"} => Emitted(sstr, i) = 1

\* ------------------------------------------------- batches and the output

\* The workers that were started and have not finished.
Active == { t \in TableIds : wpc[t] \notin {"idle", "done"} }

\* C12: in the schema dump and in the CSV export the batches run one after
\* the other: every active worker is of the current batch, a worker of a
\* batch has been started only when every worker of the batches before it
\* has finished, and the active workers are no more than the current
\* batch's size, which is at most Parallels.
C12_BatchesSequential ==
  /\ Active # {} =>
       /\ ci \in 1..Len(chunks)
       /\ Active \subseteq Batch(ci)
       /\ Cardinality(Active) <= Len(chunks[ci])
       /\ Len(chunks[ci]) <= Parallels
  /\ Cardinality(Active) <= Parallels
  /\ \A t, u \in TableSet :
       (chunks # <<>> /\ BatchOf(t) < BatchOf(u) /\ wpc[u] # "idle")
         => wpc[t] = "done"

\* The CSV export runs the worker of its second batch; the worker of the
\* first batch has finished.
C12_Witness ==
  /\ pc = "csvWait"
  /\ Len(chunks) = 2
  /\ ci = 2
  /\ \E t, u \in TableSet :
       /\ BatchOf(t) = 1 /\ wpc[t] = "done"
       /\ BatchOf(u) = 2 /\ wpc[u] = "writeAll"

\* C15 as stated: the table list is resolved before the header is written,
\* so a failed table-list retrieval leaves the output empty.
C15_TablesBeforeHeader ==
  /\ pc = "getTables" => out = <<>>
  /\ Err("getTables", 0) \in faults => out = <<>>

\* C15 amended: DumpDatabase writes the header before it resolves the table
\* list: when getTables is called the output holds the header and nothing
\* else, and when getTables fails the dump returns its error with exactly
\* the header written.
C15_HeaderBeforeTables ==
  /\ pc \in {"open", "create", "header"} => tables = <<>> /\ chunks = <<>>
  /\ pc = "getTables" => out = <<Meta("header")>>
  /\ Err("getTables", 0) \in faults =>
       /\ pc = "done"
       /\ ret = Err("getTables", 0)
       /\ out = <<Meta("header")>>

\* getTables failed and the dump has returned its error.
C15_Witness ==
  /\ pc = "done"
  /\ ret = Err("getTables", 0)
  /\ Err("getTables", 0) \in faults
  /\ Len(out) = 1

\* C16: in the CSV export the metadata file is written by the coordinator
\* alone, before the table list is resolved: a worker is started only when
\* the file holds the header and then the footer, no step of a worker and
\* no later step of the coordinator changes it, and a step that changes a
\* table's file is a step of that table's worker and changes no other file.
C16_MetadataFileFrame ==
  [][ /\ out' # out => pc \in {"csvCreate", "csvHeader", "csvFooter"}
      /\ \A t \in TableIds :
           /\ (wpc[t] = "idle" /\ wpc'[t] # "idle") =>
                out = <<Meta("header"), Meta("footer")>>
           /\ wpc'[t] # wpc[t] => out' = out
           /\ files'[t] # files[t] =>
                /\ wpc[t] \in {"createFile", "writeAll"}
                /\ \A u \in TableIds \ {t} : files'[u] = files[u]
                /\ out' = out ]_vars

\* The export returned nil with both tables' files written and the
\* metadata file holding the header and the footer.
C16_Witness ==
  /\ pc = "done"
  /\ ret = NoErr
  /\ TableSet = TableIds
  /\ \A t \in TableIds : files[t] = "full"
  /\ out = <<Meta("header"), Meta("footer")>>

\* The tables whose pipeline succeeded, in the order of the list.
Succeeded == SelectSeq(tables, LAMBDA t : ~StageFailed(t))

\* C17 as stated: every table of the list is in exactly one place of
\* exactly one batch, and when DumpDatabase returns nil every table's
\* worker has run and the output is the header, one whole block for each
\* table whose pipeline succeeded and nothing of the others, the view
\* section, the function section and the footer.
C17_SuccessfulOutputComplete ==
  /\ chunks # <<>> =>
       \A t \in TableSet :
         Cardinality({ ij \in (1..Len(chunks)) \X (1..MaxTables) :
                         /\ ij[2] <= Len(chunks[ij[1]])
                         /\ chunks[ij[1]][ij[2]] = t }) = 1
  /\ (pc = "done" /\ ret = NoErr) =>
       /\ \A t \in TableSet : wpc[t] = "done"
       /\ Len(out) = Len(StageOrder) * Len(Succeeded) + 4
       /\ out[1] = Meta("header")
       /\ out[Len(out) - 2] = Meta("views")
       /\ out[Len(out) - 1] = Meta("funcs")
       /\ out[Len(out)] = Meta("footer")
       /\ Contiguous
       /\ \A t \in TableSet :
            BlockOf(t) = IF StageFailed(t) THEN <<>> ELSE FullScript(t)

\* C18: in the schema dump the bytes of a table of an earlier batch come
\* before the bytes of a table of a later batch, whatever the order of the
\* blocks of one batch.
C18_BatchOrderInOutput ==
  \A i, j \in 1..Len(out) :
    (i < j /\ out[i].table # 0 /\ out[j].table # 0)
      => BatchOf(out[i].table) <= BatchOf(out[j].table)

\* The output holds the whole blocks of a table of the first batch and of
\* a table of the second.
C18_Witness ==
  /\ Len(chunks) = 2
  /\ \E t, u \in TableSet :
       /\ BatchOf(t) = 1 /\ BatchOf(u) = 2
       /\ BlockOf(t) = FullScript(t)
       /\ BlockOf(u) = FullScript(u)
       /\ \A i \in BytesOf(t) : \A j \in BytesOf(u) : i < j

\* C19: under fair scheduling every join of the schema dump returns,
\* whichever of the batch's workers failed; the coordinator, once in the
\* batch loop, reaches the view section; DumpDatabase returns; and there
\* is no deadlock on the writer lock or on the join: a worker waiting for
\* the mutex can take it or its holder can take a step, and at a join
\* either the join can return or a worker of the batch can take a step.
C19_JoinsReturn ==
  /\ (pc = "wait") ~> (pc = "loop")
  /\ (pc = "loop") ~> (pc = "views")
  /\ <>(pc = "done")
  /\ [](\A t \in TableIds :
          wpc[t] = "lock" =>
            \/ ENABLED Lock(t)
            \/ mx # NoOne /\ mx # t /\ ENABLED Worker(mx))
  /\ [](pc = "wait" =>
          (ENABLED Wait \/ \E t \in Batch(ci) : ENABLED Worker(t)))

\* The coordinator is at the view section after two batches in which
\* every worker failed.
C19_Witness ==
  /\ pc = "views"
  /\ TableSet = TableIds
  /\ Len(chunks) = 2
  /\ \A t \in TableIds : StageFailed(t) /\ wpc[t] = "done"
  /\ wg = 0

====
